---------------------------- MODULE Spec2Model ----------------------------
(***************************************************************************)
(* Attendance tracker (src/attendance_tracker.py): the schedule deriver,   *)
(* the attendance ledger with its flat-file store, and the threshold       *)
(* arithmetic.                                                             *)
(*                                                                         *)
(* Three specifications share the variables:                               *)
(*   SpecCalc   the pure threshold functions applied to drawn inputs;      *)
(*   SpecDerive the module-load derivation over every timetable/calendar;  *)
(*   Spec       the ledger: module load, then the button handlers.         *)
(*                                                                         *)
(* Numbers.  Python ints are unbounded, so Int is used as is.  The code's  *)
(* percentages are floats  (x / y) * 100 ; here they are exact rationals   *)
(* in lowest terms.  For the operand sizes explored (below 2^20) the two   *)
(* agree on every comparison made: x / y is correctly rounded, equal       *)
(* rationals give the same float, 3/4 and hence 75.0 are exact, and two    *)
(* different rationals with denominators <= D differ by at least 1/D^2,    *)
(* far more than the rounding error of 2^-52 relative.                     *)
(***************************************************************************)
EXTENDS Integers, Sequences, FiniteSets

VARIABLES
    pc,                    \* "load" | "run" | "calc": position of the program
    timetable,             \* timetable.csv : sequence of rows [Day, cells]
    calendar,              \* academic_calendar.csv : sequence of [Date, Day, Activity]
    subjects,              \* sorted list of subject labels
    weekday_counts,        \* dict weekday -> number of teaching dates
    subject_days,          \* dict subject -> set of weekdays
    subject_lab_sessions,  \* dict subject -> set of <<day, col_idx>>
    subject_total_classes, \* dict subject -> total expected classes
    data_file,             \* attendance_data.csv : [exists, rows]
    attendance_data,       \* the dict the running script holds
    last,                  \* history: the last interaction and its result
    marked,                \* history: dates bulk-marked since the all-zero ledger
    present, absent, total,   \* inputs of the threshold functions
    percent, can_miss, need   \* their results, <<>> until computed

vars == << pc, timetable, calendar, subjects, weekday_counts, subject_days,
           subject_lab_sessions, subject_total_classes, data_file,
           attendance_data, last, marked, present, absent, total,
           percent, can_miss, need >>

-----------------------------------------------------------------------------
(* Bounds *)

MaxN == 9          \* threshold inputs range over 0..MaxN
NumPeriods == 3    \* period columns of the timetable
NumDates == 3      \* rows of the academic calendar

(* The attendance threshold, the literal 75 of the source. *)
Threshold == 75

-----------------------------------------------------------------------------
(* Arithmetic helpers *)

Min(x, y) == IF x <= y THEN x ELSE y

(* max, for the properties and the faulty variants *)
Max(x, y) == IF x >= y THEN x ELSE y

RECURSIVE GCD(_, _)
GCD(x, y) == IF y = 0 THEN x ELSE GCD(y, x % y)

(* The value num/den (den > 0) as a rational in lowest terms. *)
Ratio(num, den) ==
    LET g == GCD(num, den)
    IN  [num |-> num \div g, den |-> den \div g]

(* perc >= 75 and perc < 75 on such a value. *)
AtLeast75(perc) == perc.num >= Threshold * perc.den
Below75(perc) == perc.num < Threshold * perc.den

-----------------------------------------------------------------------------
(* Threshold calculator *)

(* def attendance_percentage(present, absent, total)  -- a wrong clamp *)
attendance_percentage_max(p, a, t) ==
    LET attended == p
        total_classes == Max(p + a, t)
    IN  IF total_classes = 0 THEN Ratio(0, 1)
        ELSE Ratio(attended * 100, total_classes)

attendance_percentage(p, a, t) ==
    LET attended == p
        total_classes == Min(p + a, t)
    IN  IF total_classes = 0 THEN Ratio(0, 1)
        ELSE Ratio(attended * 100, total_classes)

(* The loop of classes_can_miss from i on, can_miss being the value so far. *)
RECURSIVE can_miss_loop(_, _, _, _, _)
can_miss_loop(attended, missed, remaining, i, cm) ==
    IF i > remaining THEN cm
    ELSE LET perc == IF attended + missed + i > 0
                     THEN Ratio(attended * 100, attended + missed + i)
                     ELSE Ratio(100, 1)
         IN  IF AtLeast75(perc)
             THEN can_miss_loop(attended, missed, remaining, i + 1, i)
             ELSE cm

(* A scan that does not stop at the first failure but counts one more. *)
classes_can_miss_off(p, a, t) ==
    LET k == can_miss_loop(p, a, t - (p + a), 0, 0)
    IN  IF k < t - (p + a) THEN k + 1 ELSE k

classes_can_miss(p, a, t) ==
    LET attended == p
        missed == a
        remaining == t - (p + a)
    IN  can_miss_loop(attended, missed, remaining, 0, 0)

(* The while loop of classes_needed_to_reach_75 from need on.  The result  *)
(* is <<n>> for  return n  and <<>> for  return None.                      *)
RECURSIVE needed_loop(_, _, _, _)
needed_loop(attended, missed, t, n) ==
    IF attended + n <= t
    THEN LET perc == IF attended + missed + n > 0
                     THEN Ratio((attended + n) * 100, attended + missed + n)
                     ELSE Ratio(0, 1)
         IN  IF AtLeast75(perc) THEN << n >>
             ELSE needed_loop(attended, missed, t, n + 1)
    ELSE << >>

(* The loop run  while (attended + need) < total. *)
classes_needed_to_reach_75_lt(p, a, t) == needed_loop(p, a, t - 1, 0)

classes_needed_to_reach_75(p, a, t) ==
    LET attended == p
        missed == a
    IN  needed_loop(attended, missed, t, 0)

-----------------------------------------------------------------------------
(* Cell texts.  TLC's strings are atomic, so the string operations of the  *)
(* source are tabulated over the cell values the model draws from.         *)

(* The raw cell values are those of LedgerTimetables and DeriveCells       *)
(* below.  "" is an empty field, which pandas reads as NaN; " " is a field *)
(* holding one blank.                                                      *)

(* str(cell).strip() *)
CellText(raw) ==
    CASE raw = ""      -> "nan"
      [] raw = " "     -> ""
      [] raw = " Math" -> "Math"
      [] OTHER         -> raw

(* s and s.lower() != 'break' *)
IsSubjectText(s) == s # "" /\ s \notin { "break", "Break" }

(* 'lab' in s.lower() *)
IsLab(s) == s \in { "Physics Lab", "Chem LAB" }

(* s.replace(' ', '').upper().startswith('TCS-502') *)
IsDoubled(s) == s \in { "TCS-502", "tcs - 502 T" }

(* sorted(): the subject texts in Python's string order. *)
SortOrder == << "Chem LAB", "Math", "Physics Lab", "TCS-502", "nan",
                "tcs - 502 T" >>

(* prev_subj = None; no cell text equals it. *)
None == "<None>"

(* An empty field of academic_calendar.csv (NaN). *)
IsNull(x) == x = ""

-----------------------------------------------------------------------------
(* Schedule deriver: the module-level code run when the script loads *)

Range(f) == { f[x] : x \in DOMAIN f }

(* subjects = sorted(set of the non-break cell texts) *)
SubjectList(tt) ==
    LET found == { CellText(tt[r].cells[c]) :
                       r \in DOMAIN tt, c \in 1..NumPeriods }
    IN  SelectSeq(SortOrder, LAMBDA s : s \in found /\ IsSubjectText(s))

(* dates_df[dates_df['Activity'].isnull()] *)
TeachingRows(cal) == SelectSeq(cal, LAMBDA r : IsNull(r.Activity))

(* dates_df['Day'].value_counts().to_dict() *)
WeekdayCounts(cal) ==
    LET rows == TeachingRows(cal)
        days == { rows[i].Day : i \in DOMAIN rows }
    IN  [ d \in days |-> Cardinality({ i \in DOMAIN rows : rows[i].Day = d }) ]

(* The loop over the period columns of a row with every lab period        *)
(* recorded as a session of its own.                                       *)
RECURSIVE schedule_row_nomerge(_, _, _, _)
schedule_row_nomerge(row, col_idx, prev_subj, acc) ==
    IF col_idx > NumPeriods THEN acc
    ELSE LET s == CellText(row.cells[col_idx])
         IN  IF IsSubjectText(s)
             THEN IF IsLab(s)
                  THEN schedule_row_nomerge(row, col_idx + 1, s,
                         [acc EXCEPT !.labs[s] = @ \cup { << row.Day, col_idx >> }])
                  ELSE schedule_row_nomerge(row, col_idx + 1, s,
                         [acc EXCEPT !.days[s] = @ \cup { row.Day }])
             ELSE schedule_row_nomerge(row, col_idx + 1, None, acc)

(* The inner loop over the period columns of one timetable row, from       *)
(* col_idx on; acc holds subject_days and subject_lab_sessions.            *)
RECURSIVE schedule_row(_, _, _, _)
schedule_row(row, col_idx, prev_subj, acc) ==
    IF col_idx > NumPeriods THEN acc
    ELSE LET s == CellText(row.cells[col_idx])
         IN  IF IsSubjectText(s)
             THEN IF IsLab(s)
                  THEN IF prev_subj = s
                       THEN schedule_row(row, col_idx + 1, prev_subj, acc)
                       ELSE schedule_row(row, col_idx + 1, s,
                              [acc EXCEPT !.labs[s] = @ \cup { << row.Day, col_idx >> }])
                  ELSE schedule_row(row, col_idx + 1, s,
                         [acc EXCEPT !.days[s] = @ \cup { row.Day }])
             ELSE schedule_row(row, col_idx + 1, None, acc)

(* for i, row in timetable.iterrows(): ... *)
RECURSIVE schedule_rows(_, _, _)
schedule_rows(tt, i, acc) ==
    IF i > Len(tt) THEN acc
    ELSE schedule_rows(tt, i + 1, schedule_row(tt[i], 1, None, acc))

SubjectSchedule(tt) ==
    LET subj == Range(SubjectList(tt))
    IN  schedule_rows(tt, 1, [ days |-> [ s \in subj |-> {} ],
                               labs |-> [ s \in subj |-> {} ] ])

(* weekday_counts.get(day, 0) *)
CountOf(wc, day) == IF day \in DOMAIN wc THEN wc[day] ELSE 0

(* for (day, col_idx) in subject_lab_sessions[s]:                          *)
(*     if day in weekday_counts: total += weekday_counts[day]              *)
RECURSIVE lab_total(_, _)
lab_total(sessions, wc) ==
    IF sessions = {} THEN 0
    ELSE LET e == CHOOSE x \in sessions : TRUE
             day == e[1]
         IN  (IF day \in DOMAIN wc THEN wc[day] ELSE 0)
                 + lab_total(sessions \ { e }, wc)

(* for day in subject_days[s]: total += weekday_counts.get(day, 0) *)
RECURSIVE days_total(_, _)
days_total(days, wc) ==
    IF days = {} THEN 0
    ELSE LET day == CHOOSE x \in days : TRUE
         IN  CountOf(wc, day) + days_total(days \ { day }, wc)

(* The body of  for s in subjects  that fills subject_total_classes. *)
TotalClasses(s, sched, wc) ==
    IF IsLab(s)
    THEN lab_total(sched.labs[s], wc)
    ELSE LET t == days_total(sched.days[s], wc)
         IN  IF IsDoubled(s) THEN t * 2 ELSE t

(* def initialize_attendance_csv(subjects) *)
initialize_attendance_csv(file, subj) ==
    IF ~ file.exists
    THEN [ exists |-> TRUE,
           rows |-> [ i \in DOMAIN subj |->
                        [ subject |-> subj[i], present |-> 0, absent |-> 0 ] ] ]
    ELSE file

-----------------------------------------------------------------------------
(* Attendance ledger: the dict and its flat file *)

(* def load_attendance(): a dict built from the rows in order, or the      *)
(* all-zero dict when the file does not exist.                             *)
load_attendance(file, subj) ==
    IF file.exists
    THEN LET rows == file.rows
             keys == { rows[i].subject : i \in DOMAIN rows }
             lastRow(s) == CHOOSE i \in DOMAIN rows :
                              /\ rows[i].subject = s
                              /\ \A j \in DOMAIN rows : rows[j].subject = s => j <= i
         IN  [ s \in keys |-> [ present |-> rows[lastRow(s)].present,
                                absent  |-> rows[lastRow(s)].absent ] ]
    ELSE [ s \in Range(subj) |-> [ present |-> 0, absent |-> 0 ] ]

(* def save_attendance(data): the whole file rewritten, one row per subject *)
save_attendance(data, subj) ==
    [ exists |-> TRUE,
      rows |-> [ i \in DOMAIN subj |->
                   [ subject |-> subj[i],
                     present |-> data[subj[i]].present,
                     absent  |-> data[subj[i]].absent ] ] ]

(* if present + absent < total: attendance_data[subject][field] += 1  --   *)
(* with the comparison off by one.                                         *)
capped_increment_le(data, s, field, totals) ==
    IF data[s].present + data[s].absent <= totals[s]
    THEN [ data EXCEPT ![s][field] = @ + 1 ]
    ELSE data

(* if present + absent < total: attendance_data[subject][field] += 1 *)
capped_increment(data, s, field, totals) ==
    IF data[s].present + data[s].absent < totals[s]
    THEN [ data EXCEPT ![s][field] = @ + 1 ]
    ELSE data

(* A batch that stops at the first subject found at its cap. *)
RECURSIVE mark_all_abort(_, _, _, _, _)
mark_all_abort(data, list, i, field, totals) ==
    IF i > Len(list) THEN data
    ELSE IF data[list[i]].present + data[list[i]].absent < totals[list[i]]
         THEN mark_all_abort([ data EXCEPT ![list[i]][field] = @ + 1 ],
                             list, i + 1, field, totals)
         ELSE data

(* for s in scheduled_subjects: if ... < subject_total_classes[s]: ... += 1 *)
RECURSIVE mark_all(_, _, _, _, _)
mark_all(data, list, i, field, totals) ==
    IF i > Len(list) THEN data
    ELSE mark_all(capped_increment(data, list[i], field, totals),
                  list, i + 1, field, totals)

(* The loop that gathers scheduled_subjects from one timetable row. *)
RECURSIVE scheduled_loop(_, _, _, _)
scheduled_loop(row, col_idx, prev_subj, out) ==
    IF col_idx > NumPeriods THEN out
    ELSE LET s == CellText(row.cells[col_idx])
         IN  IF IsSubjectText(s)
             THEN IF IsLab(s) /\ prev_subj = s
                  THEN scheduled_loop(row, col_idx + 1, prev_subj, out)
                  ELSE scheduled_loop(row, col_idx + 1, s, Append(out, s))
             ELSE scheduled_loop(row, col_idx + 1, None, out)

(* valid_dates: the dates of the teaching rows of the calendar *)
ValidDates(cal) ==
    LET rows == TeachingRows(cal) IN { rows[i].Date : i \in DOMAIN rows }

(* pd.to_datetime(str(selected_date)).day_name(): the dates listed in the  *)
(* calendar, numbered in order, fall on these weekdays in turn.            *)
CalendarDays == << "Monday", "Tuesday", "Monday", "Wednesday" >>
DayName(date) == CalendarDays[((date - 1) % Len(CalendarDays)) + 1]

(* timetable[timetable['Day'] == weekday] : the matching row numbers *)
RowsFor(tt, weekday) == { r \in DOMAIN tt : tt[r].Day = weekday }

(* scheduled_subjects for a date whose weekday has a timetable row (.iloc[0]) *)
ScheduledSubjects(tt, date) ==
    LET rs == RowsFor(tt, DayName(date))
        first == CHOOSE r \in rs : \A q \in rs : r <= q
    IN  scheduled_loop(tt[first], 1, None, << >>)

-----------------------------------------------------------------------------
(* Inputs *)

(* sum of present + absent over a ledger *)
RECURSIVE Recorded(_, _)
Recorded(data, keys) ==
    IF keys = {} THEN 0
    ELSE LET s == CHOOSE x \in keys : TRUE
         IN  data[s].present + data[s].absent + Recorded(data, keys \ { s })

(* A timetable row: the given cells, padded with breaks to NumPeriods. *)
Row(day, cells) ==
    [ Day |-> day,
      cells |-> [ c \in 1..NumPeriods |->
                    IF c <= Len(cells) THEN cells[c] ELSE "break" ] ]

(* The timetables the ledger is run on. *)
LedgerTimetables ==
    { << Row("Monday",  << "Physics Lab", "Physics Lab", "Math" >>),
         Row("Tuesday", << "Math", "break", "TCS-502" >>) >>,
      << Row("Monday",  << "Math", "Math", "Chem LAB" >>),
         Row("Tuesday", << " ", "", "Break" >>) >>,
      << Row("Monday",  << "Physics Lab", " Math", "Physics Lab" >>),
         Row("Tuesday", << "Physics Lab", "Physics Lab", "Physics Lab" >>) >>,
      << Row("Monday",  << "tcs - 502 T", "tcs - 502 T" >>),
         Row("Wednesday", << "Chem LAB", "Chem LAB" >>) >> }

(* The timetables of the deriver: any Monday row over DeriveCells, and a   *)
(* Tuesday that holds one of them in every period.                         *)
DeriveCells == { "break", "", "Math", "Physics Lab", "Chem LAB" }

DeriveTimetables ==
    { << [ Day |-> "Monday", cells |-> m ],
         [ Day |-> "Tuesday", cells |-> [ c \in 1..NumPeriods |-> t ] ] >> :
          m \in [ 1..NumPeriods -> DeriveCells ], t \in DeriveCells }

(* The calendars: NumDates dates in order, any of them a holiday. *)
Calendars ==
    { [ d \in 1..NumDates |->
          [ Date |-> d, Day |-> DayName(d),
            Activity |-> IF d \in hol THEN "Holiday" ELSE "" ] ] :
      hol \in SUBSET (1..NumDates) }

NoLast == [ op |-> "none", subject |-> "", field |-> "", list |-> << >>,
            before |-> << >> ]

InitCommon ==
    /\ subjects = << >>
    /\ weekday_counts = << >>
    /\ subject_days = << >>
    /\ subject_lab_sessions = << >>
    /\ subject_total_classes = << >>
    /\ data_file = [ exists |-> FALSE, rows |-> << >> ]
    /\ attendance_data = << >>
    /\ last = NoLast
    /\ marked = [ clean |-> TRUE, dates |-> {} ]

NoCalc ==
    /\ present = 0 /\ absent = 0 /\ total = 0
    /\ percent = << >> /\ can_miss = << >> /\ need = << >>

-----------------------------------------------------------------------------
(* The script's module-level code, lines 38-97, followed by the first      *)
(* load_attendance() of the page.  Streamlit runs it again on every        *)
(* interaction; the two input files never change, so it yields the same    *)
(* values each time and is taken once.                                     *)
LoadModule ==
    /\ pc = "load"
    /\ LET subj  == SubjectList(timetable)
           wc    == WeekdayCounts(calendar)
           sched == SubjectSchedule(timetable)
           file  == initialize_attendance_csv(data_file, subj)
       IN  /\ subjects' = subj
           /\ weekday_counts' = wc
           /\ subject_days' = sched.days
           /\ subject_lab_sessions' = sched.labs
           /\ subject_total_classes' =
                  [ s \in Range(subj) |-> TotalClasses(s, sched, wc) ]
           /\ data_file' = file
           /\ attendance_data' = load_attendance(file, subj)
    /\ pc' = "run"
    /\ UNCHANGED << timetable, calendar, last, marked,
                    present, absent, total, percent, can_miss, need >>

Frame == UNCHANGED << pc, timetable, calendar, subjects, weekday_counts,
                      subject_days, subject_lab_sessions, subject_total_classes,
                      present, absent, total, percent, can_miss, need >>

(* A Present button whose handler forgets save_attendance. *)
Present_nosave(subject) ==
    /\ pc = "run"
    /\ subject \in Range(subjects)
    /\ LET data == load_attendance(data_file, subjects)
       IN  /\ attendance_data' =
                  capped_increment(data, subject, "present", subject_total_classes)
           /\ data_file' = data_file
           /\ last' = [ NoLast EXCEPT !.op = "record", !.subject = subject,
                                      !.field = "present", !.before = data ]
    /\ marked' = [ clean |-> FALSE, dates |-> {} ]
    /\ Frame

(* Dashboard: the Present button of a subject. *)
Present(subject) ==
    /\ pc = "run"
    /\ subject \in Range(subjects)
    /\ LET data == load_attendance(data_file, subjects)
           new  == capped_increment(data, subject, "present", subject_total_classes)
       IN  /\ attendance_data' = new
           /\ data_file' = IF new # data THEN save_attendance(new, subjects)
                           ELSE data_file
           /\ last' = [ NoLast EXCEPT !.op = "record", !.subject = subject,
                                      !.field = "present", !.before = data ]
    /\ marked' = [ clean |-> FALSE, dates |-> {} ]
    /\ Frame

(* Dashboard: the Absent button of a subject. *)
Absent(subject) ==
    /\ pc = "run"
    /\ subject \in Range(subjects)
    /\ LET data == load_attendance(data_file, subjects)
           new  == capped_increment(data, subject, "absent", subject_total_classes)
       IN  /\ attendance_data' = new
           /\ data_file' = IF new # data THEN save_attendance(new, subjects)
                           ELSE data_file
           /\ last' = [ NoLast EXCEPT !.op = "record", !.subject = subject,
                                      !.field = "absent", !.before = data ]
    /\ marked' = [ clean |-> FALSE, dates |-> {} ]
    /\ Frame

(* Dashboard: Reset All Attendance Data. *)
ResetAll ==
    /\ pc = "run"
    /\ LET data == load_attendance(data_file, subjects)
           new  == [ s \in Range(subjects) |-> [ present |-> 0, absent |-> 0 ] ]
       IN  /\ attendance_data' = new
           /\ data_file' = save_attendance(new, subjects)
           /\ last' = [ NoLast EXCEPT !.op = "reset", !.before = data ]
    /\ marked' = [ clean |-> TRUE, dates |-> {} ]
    /\ Frame

(* Calendar View: a date that is not a teaching day, or whose weekday has  *)
(* no timetable row; the script stops before the buttons.                  *)
CalendarViewStop(date) ==
    /\ pc = "run"
    /\ ValidDates(calendar) # {}
    /\ date \in 1..NumDates
    /\ \E lo, hi \in ValidDates(calendar) : lo <= date /\ date <= hi
    /\ \/ date \notin ValidDates(calendar)
       \/ RowsFor(timetable, DayName(date)) = {}
    /\ LET data == load_attendance(data_file, subjects)
       IN  /\ attendance_data' = data
           /\ last' = [ NoLast EXCEPT
                          !.op = IF date \notin ValidDates(calendar)
                                 THEN "not a teaching day" ELSE "no classes",
                          !.before = data ]
    /\ UNCHANGED << data_file, marked >>
    /\ Frame

(* Calendar View: Mark all as Attended / Mark all as Absent for a date. *)
MarkAll(date, field) ==
    /\ pc = "run"
    /\ date \in ValidDates(calendar)
    /\ RowsFor(timetable, DayName(date)) # {}
    /\ LET data == load_attendance(data_file, subjects)
           scheduled_subjects == ScheduledSubjects(timetable, date)
           new  == mark_all(data, scheduled_subjects, 1, field, subject_total_classes)
       IN  /\ attendance_data' = new
           /\ data_file' = save_attendance(new, subjects)
           /\ last' = [ NoLast EXCEPT !.op = "bulk", !.field = field,
                                      !.list = scheduled_subjects,
                                      !.before = data ]
    /\ marked' = IF marked.clean /\ date \notin marked.dates
                 THEN [ marked EXCEPT !.dates = @ \cup { date } ]
                 ELSE [ clean |-> FALSE, dates |-> {} ]
    /\ Frame

MarkAllAttended(date) == MarkAll(date, "present")
MarkAllAbsent(date) == MarkAll(date, "absent")

Init ==
    /\ pc = "load"
    /\ timetable \in LedgerTimetables
    /\ calendar \in Calendars
    /\ InitCommon
    /\ NoCalc

Next ==
    \/ LoadModule
    \/ \E s \in Range(SortOrder) : Present(s)
    \/ \E s \in Range(SortOrder) : Absent(s)
    \/ ResetAll
    \/ \E d \in 1..NumDates : CalendarViewStop(d)
    \/ \E d \in 1..NumDates : MarkAllAttended(d)
    \/ \E d \in 1..NumDates : MarkAllAbsent(d)

Spec == Init /\ [][Next]_vars

(* The deriver alone, over every timetable of DeriveCells. *)
InitDerive ==
    /\ pc = "load"
    /\ timetable \in DeriveTimetables
    /\ calendar \in Calendars
    /\ InitCommon
    /\ NoCalc

NextDerive == LoadModule

SpecDerive == InitDerive /\ [][NextDerive]_vars

-----------------------------------------------------------------------------
(* The threshold functions applied to drawn inputs *)

InitCalc ==
    /\ pc = "calc"
    /\ timetable = << >>
    /\ calendar = << >>
    /\ InitCommon
    /\ present \in 0..MaxN
    /\ absent \in 0..MaxN
    /\ total \in 0..MaxN
    /\ percent = << >> /\ can_miss = << >> /\ need = << >>

CalcFrame == UNCHANGED << pc, timetable, calendar, subjects, weekday_counts,
                          subject_days, subject_lab_sessions,
                          subject_total_classes, data_file, attendance_data,
                          last, marked, present, absent, total >>

CallPercentage ==
    /\ pc = "calc" /\ percent = << >>
    /\ percent' = << attendance_percentage(present, absent, total) >>
    /\ UNCHANGED << can_miss, need >>
    /\ CalcFrame

CallCanMiss ==
    /\ pc = "calc" /\ can_miss = << >>
    /\ can_miss' = << classes_can_miss(present, absent, total) >>
    /\ UNCHANGED << percent, need >>
    /\ CalcFrame

CallNeeded ==
    /\ pc = "calc" /\ need = << >>
    /\ need' = << classes_needed_to_reach_75(present, absent, total) >>
    /\ UNCHANGED << percent, can_miss >>
    /\ CalcFrame

NextCalc == CallPercentage \/ CallCanMiss \/ CallNeeded

SpecCalc == InitCalc /\ [][NextCalc]_vars

-----------------------------------------------------------------------------
(* Properties of the ledger (Spec) *)

Stored == load_attendance(data_file, subjects)

WithinCapacity(data) ==
    \A s \in Range(subjects) :
        /\ data[s].present >= 0
        /\ data[s].absent >= 0
        /\ data[s].present + data[s].absent <= subject_total_classes[s]

AtCap(data, s) == data[s].present + data[s].absent = subject_total_classes[s]

(* C1: after any sequence of Present, Absent, mark-all and reset           *)
(* operations from the all-zero ledger, every subject has present >= 0,    *)
(* absent >= 0 and present + absent <= its total expected classes, in the  *)
(* running script's dict and in the file.                                  *)
C1_WithinCapacity ==
    pc = "run" => WithinCapacity(attendance_data) /\ WithinCapacity(Stored)

(* C1 witness: a mark-all whose list names a subject twice has just run,   *)
(* it changed the ledger, a listed subject sits at a positive cap and some *)
(* subject has a total of 0.                                               *)
C1_Witness ==
    /\ pc = "run" /\ last.op = "bulk"
    /\ attendance_data # last.before
    /\ \E i, j \in DOMAIN last.list :
          /\ i < j /\ last.list[i] = last.list[j]
          /\ AtCap(attendance_data, last.list[i])
          /\ subject_total_classes[last.list[i]] > 0
    /\ \E s \in Range(subjects) : subject_total_classes[s] = 0

(* What the claim says a mark-all leaves behind, subject by subject: the   *)
(* chosen counter grows by the number of the subject's entries, as far as  *)
(* the room under its cap allows; nothing else changes.                    *)
ExpectedBulk(before, list, field) ==
    [ s \in DOMAIN before |->
        LET k    == Cardinality({ i \in DOMAIN list : list[i] = s })
            room == subject_total_classes[s] - before[s].present - before[s].absent
            inc  == Min(k, Max(room, 0))
        IN  [ present |-> before[s].present + (IF field = "present" THEN inc ELSE 0),
              absent  |-> before[s].absent + (IF field = "absent" THEN inc ELSE 0) ] ]

(* C2: a mark-all caps each listed subject on its own and never aborts:    *)
(* every entry met below the cap adds exactly 1 to the chosen counter,     *)
(* every entry met at the cap adds nothing, entries after a capped one are *)
(* still processed, and the other counter and the unlisted subjects are    *)
(* unchanged.                                                              *)
C2_BulkMarkEffect ==
    (pc = "run" /\ last.op = "bulk") =>
        attendance_data = ExpectedBulk(last.before, last.list, last.field)

(* C2 witness: a mark-all met a subject at its cap and incremented a       *)
(* subject listed after it.                                                *)
C2_Witness ==
    /\ pc = "run" /\ last.op = "bulk"
    /\ \E i, j \in DOMAIN last.list :
          /\ i < j
          /\ AtCap(last.before, last.list[i])
          /\ attendance_data[last.list[i]] = last.before[last.list[i]]
          /\ attendance_data[last.list[j]] # last.before[last.list[j]]

(* C3: every operation leaves the file holding exactly one row per subject *)
(* of the subject list, in its order, with the values of the dict the      *)
(* operation produced, so the next load_attendance returns that dict.      *)
C3_DurableWrite ==
    pc = "run" =>
        /\ data_file.exists
        /\ [ i \in DOMAIN data_file.rows |-> data_file.rows[i].subject ] = subjects
        /\ Stored = attendance_data

(* C3 witness: a Present or Absent click has just changed the ledger. *)
C3_Witness ==
    /\ pc = "run" /\ last.op = "record"
    /\ attendance_data # last.before
    /\ Len(subjects) > 1

(* The entries a subject has in the day lists of all the teaching dates    *)
(* whose weekday has a timetable row.                                      *)
DayListEntries(s) ==
    Cardinality({ << d, i >> \in (1..NumDates) \X (1..NumPeriods) :
                     /\ d \in ValidDates(calendar)
                     /\ RowsFor(timetable, DayName(d)) # {}
                     /\ i <= Len(ScheduledSubjects(timetable, d))
                     /\ ScheduledSubjects(timetable, d)[i] = s })

(* The increments the last mark-all dropped at a cap. *)
Dropped ==
    Len(last.list) - (Recorded(attendance_data, DOMAIN attendance_data)
                        - Recorded(last.before, DOMAIN last.before))

(* C10: while the teaching dates are mark-all'ed at most once each from    *)
(* the all-zero ledger, no increment is dropped by the cap; and once every *)
(* teaching date has been marked, each subject's entries in the day lists  *)
(* of all teaching dates number at most its total expected classes, and    *)
(* exactly that for a subject that is not doubled.                         *)
C10_DayListsMatchTotals ==
    (pc = "run" /\ marked.clean /\ last.op = "bulk") =>
        /\ Dropped = 0
        /\ marked.dates = ValidDates(calendar) =>
              \A s \in Range(subjects) :
                  /\ DayListEntries(s) <= subject_total_classes[s]
                  /\ ~ IsDoubled(s) => DayListEntries(s) = subject_total_classes[s]

-----------------------------------------------------------------------------
(* Properties of the schedule deriver (SpecDerive) *)

Text(r, c) == CellText(timetable[r].cells[c])

(* The first columns of the maximal runs of lab s, with their weekdays. *)
RunStarts(s) ==
    { e \in { timetable[r].Day : r \in DOMAIN timetable } \X (1..NumPeriods) :
        \E r \in DOMAIN timetable :
            /\ timetable[r].Day = e[1]
            /\ Text(r, e[2]) = s
            /\ (e[2] = 1 \/ Text(r, e[2] - 1) # s) }

(* The teaching occurrences of the sessions: (session, date) pairs. *)
TeachingOccurrences(sessions) ==
    { << e, d >> \in sessions \X (1..NumDates) :
        /\ IsNull(calendar[d].Activity)
        /\ calendar[d].Day = e[1] }

(* C8: every maximal run of one lab label in a timetable row is recorded   *)
(* as exactly one session keyed by (weekday, first column of the run), and *)
(* a lab's total is the number of teaching dates of the session's weekday  *)
(* summed over its sessions (none for a weekday without teaching dates).   *)
C8_LabSessionsMerged ==
    pc = "run" =>
        \A s \in Range(subjects) :
            IsLab(s) =>
                /\ subject_lab_sessions[s] = RunStarts(s)
                /\ subject_total_classes[s] =
                       Cardinality(TeachingOccurrences(RunStarts(s)))

(* C8 witness: Physics Lab fills periods 2 to NumPeriods of Monday after a *)
(* different label and all of Tuesday, each day one session; Monday is     *)
(* taught twice and Tuesday is not taught.                                 *)
C8_Witness ==
    /\ pc = "run"
    /\ Text(1, 1) = "Math"
    /\ \A c \in 2..NumPeriods : Text(1, c) = "Physics Lab"
    /\ \A c \in 1..NumPeriods : Text(2, c) = "Physics Lab"
    /\ subject_lab_sessions["Physics Lab"] = { << "Monday", 2 >>, << "Tuesday", 1 >> }
    /\ CountOf(weekday_counts, "Monday") = 2
    /\ "Tuesday" \notin DOMAIN weekday_counts
    /\ subject_total_classes["Physics Lab"] = 2

-----------------------------------------------------------------------------
(* Properties of the threshold functions (SpecCalc) *)

InLedgerRange == present + absent <= total

(* 100 * x / n exactly, 0.0 for n = 0 *)
Exact(x, n) == IF n = 0 THEN Ratio(0, 1) ELSE Ratio(100 * x, n)

(* ceil(x / y) and floor(x / y) for y > 0 *)
Ceil(x, y) == - ((- x) \div y)
Floor(x, y) == x \div y

(* C4 as stated: with p + a > t, attendance_percentage(p, a, t) returns    *)
(* the value of attendance_percentage(p, a, p + a).                        *)
C4_MinClampAsStated ==
    (percent # << >> /\ present + absent > total) =>
        percent[1] = attendance_percentage(present, absent, present + absent)

(* C4 amended: with p + a <= t, attendance_percentage(p, a, t) returns the *)
(* value of attendance_percentage(p, a, p + a); with p + a > t it returns  *)
(* 100 * p / t, and 0.0 when t = 0.                                        *)
C4_MinClamp ==
    percent # << >> =>
        /\ present + absent <= total =>
              percent[1] = attendance_percentage(present, absent, present + absent)
        /\ present + absent > total => percent[1] = Exact(present, total)

(* C4 witness: the percentage was computed for p + a > t > 0 with p > 0    *)
(* and differs from 100 * p / (p + a).                                     *)
C4_Witness ==
    /\ percent # << >>
    /\ present + absent > total /\ total > 0 /\ present > 0
    /\ percent[1] # Exact(present, present + absent)

(* C5: when classes_needed_to_reach_75 returns n for present + absent <=   *)
(* total, the percentage after n more attended classes is >= 75, and after *)
(* n - 1 (if n - 1 >= 0) it is < 75.                                       *)
C5_NeededIsTight ==
    (need # << >> /\ InLedgerRange /\ need[1] # << >>) =>
        LET n == need[1][1]
        IN  /\ AtLeast75(attendance_percentage(present + n, absent, total))
            /\ n - 1 >= 0 =>
                  Below75(attendance_percentage(present + n - 1, absent, total))

(* n_min of the closed form: max(0, ceil((75 (p + a) - 100 p) / 25)) *)
ClosedFormNeeded ==
    Max(0, Ceil(Threshold * (present + absent) - 100 * present, 100 - Threshold))

(* C6 as stated: for present + absent <= total, present = absent = 0       *)
(* included, the function returns n_min when present + n_min <= total and  *)
(* None exactly when present + n_min > total.                              *)
C6_ClosedFormAsStated ==
    (need # << >> /\ InLedgerRange) =>
        need[1] = IF present + ClosedFormNeeded <= total
                  THEN << ClosedFormNeeded >> ELSE << >>

(* C6 amended: that holds for present + absent <= total with present +     *)
(* absent > 0; for present = absent = 0 the function returns 1 when        *)
(* total >= 1 and None when total = 0.                                     *)
C6_ClosedForm ==
    (need # << >> /\ InLedgerRange) =>
        LET n == IF present + absent = 0 THEN 1 ELSE ClosedFormNeeded
        IN  need[1] = IF present + n <= total THEN << n >> ELSE << >>

(* C6 witness: a positive number of classes was returned for a record that *)
(* is not empty.                                                           *)
C6_Witness ==
    /\ need # << >> /\ InLedgerRange /\ present + absent > 0
    /\ need[1] # << >> /\ need[1][1] > 0 /\ present > 0

(* The k with 0 <= k <= total - present - absent that keep 75%. *)
Missable ==
    { k \in 0..(total - present - absent) :
        100 * present >= Threshold * (present + absent + k) }

(* floor(present * 100 / 75 - present - absent) clamped to [0, remaining] *)
ClosedFormMissable ==
    Min(Max(Floor(100 * present - Threshold * (present + absent), Threshold), 0),
        total - present - absent)

(* C7 as stated: for present + absent <= total, classes_can_miss returns   *)
(* the largest k with 0 <= k <= total - present - absent and 100 present   *)
(* >= 75 (present + absent + k), which equals the clamped closed form.     *)
C7_MissBudgetAsStated ==
    (can_miss # << >> /\ InLedgerRange) =>
        /\ can_miss[1] \in Missable
        /\ \A k \in Missable : k <= can_miss[1]
        /\ can_miss[1] = ClosedFormMissable

(* C7 amended: classes_can_miss returns the clamped closed form; that is   *)
(* the largest such k whenever one exists (100 present >= 75 (present +    *)
(* absent)), and 0 when none does.                                         *)
C7_MissBudget ==
    (can_miss # << >> /\ InLedgerRange) =>
        /\ can_miss[1] = ClosedFormMissable
        /\ Missable # {} => /\ can_miss[1] \in Missable
                            /\ \A k \in Missable : k <= can_miss[1]
        /\ Missable = {} => can_miss[1] = 0

(* C7 witness: a budget that is positive and smaller than what remains. *)
C7_Witness ==
    /\ can_miss # << >> /\ InLedgerRange
    /\ can_miss[1] > 0 /\ can_miss[1] < total - present - absent

(* C9: a number n returned by classes_needed_to_reach_75 for present +     *)
(* absent <= total fits in the classes that remain: present + absent + n   *)
(* <= total.                                                               *)
C9_NeededFitsRemaining ==
    (need # << >> /\ InLedgerRange /\ need[1] # << >>) =>
        present + absent + need[1][1] <= total

=============================================================================
